---- MODULE Spec2Model ----
(***************************************************************************)
(* Model of src/agent.py: a Streamlit script that, on a button press with  *)
(* a non-blank topic, performs two best-effort HTTP lookups, builds a      *)
(* context block, prepends it to the first task's description and kicks    *)
(* off a three-task crew; the stripped result is kept in session state.    *)
(*                                                                         *)
(* Python strings are sequences of one-character strings; a fixed literal  *)
(* of the source is one element ("WIKIPEDIA: ").  Streamlit executes the   *)
(* whole script again on every interaction, so one script run is the       *)
(* action Rerun followed by the blocking calls it makes.                   *)
(***************************************************************************)
EXTENDS Integers, Sequences, FiniteSets, TLC

VARIABLES
    GROQ_API_KEY,          \* line 14, as edited by the deployer
    st_warning,            \* whether st.warning was rendered in this script run
    st_error,              \* text rendered by st.error in this script run (<<>>: none)
    topic,                 \* value of the text input in this script run
    run_btn,               \* value of the button in this script run
    session_state,         \* st.session_state, kept across script runs
    research_description,  \* research_task.description
    pc,                    \* where the script run is blocked: idle, wiki, ddg, kickoff
    user_topic,            \* run_pipeline's argument
    wiki_resp,             \* last response of the encyclopedia endpoint
    wiki,                  \* run_pipeline's local wiki
    ddg_resp,              \* last response of the search endpoint
    links,                 \* run_pipeline's local links
    context_block,         \* run_pipeline's local context_block (three lines)
    inputs,                \* run_pipeline's local inputs
    task_idx,              \* index in crew.tasks of the task being executed
    task_prompts,          \* interpolated description each executed task was given
    task_contexts,         \* the previous output each executed task was given
    task_outputs,          \* raw outputs of the tasks completed in this kickoff
    log                    \* external calls started in this script run, in order

vars == <<GROQ_API_KEY, st_warning, st_error, topic, run_btn, session_state,
          research_description, pc, user_topic, wiki_resp, wiki, ddg_resp, links,
          context_block, inputs, task_idx, task_prompts, task_contexts,
          task_outputs, log>>

----------------------------------------------------------------------------
(* Bounds of the model and constants of the program *)

MaxAnchors == 6
ExtraLen == 1

SummaryCap == 800
MaxResults == 5
OkStatus == 200

Min(a, b) == IF a < b THEN a ELSE b

----------------------------------------------------------------------------
(* Python string operations *)

Whitespace == {" ", "\n"}

RECURSIVE LStripSet(_, _)
LStripSet(s, cs) ==
    IF s # <<>> /\ Head(s) \in cs THEN LStripSet(Tail(s), cs) ELSE s

RECURSIVE RStripSet(_, _)
RStripSet(s, cs) ==
    IF s # <<>> /\ s[Len(s)] \in cs THEN RStripSet(SubSeq(s, 1, Len(s) - 1), cs) ELSE s

\* str.strip()
Strip(s) == RStripSet(LStripSet(s, Whitespace), Whitespace)

\* str.rstrip(".")
RStripDot(s) == RStripSet(s, {"."})

\* seq[:n] for n >= 0, on a string or a list
PySlice(s, n) == SubSeq(s, 1, Min(Len(s), n))

RECURSIVE Join(_, _)
\* sep.join(parts)
Join(sep, parts) ==
    IF parts = <<>> THEN <<>>
    ELSE IF Len(parts) = 1 THEN parts[1]
    ELSE parts[1] \o sep \o Join(sep, Tail(parts))

\* number of occurrences of the element c in s
Count(s, c) == Cardinality({i \in 1..Len(s) : s[i] = c})

\* a string of n characters
Chars(n) == [i \in 1..n |-> IF i % 2 = 1 THEN "x" ELSE "y"]

----------------------------------------------------------------------------
(* JSON values as Python sees them after r.json() *)

JStr(s) == [t |-> "str", s |-> s, items |-> <<>>]
JNull == [t |-> "null", s |-> <<>>, items |-> <<>>]
JNum(d) == [t |-> "num", s |-> <<d>>, items |-> <<>>]
JList(xs) == [t |-> "list", s |-> <<>>, items |-> xs]
JAbsent == [t |-> "absent", s |-> <<>>, items |-> <<>>]

\* dict.get(key, default)
DictGet(v, default) == IF v.t = "absent" THEN default ELSE v

\* truth value of a Python object
Truthy(v) ==
    CASE v.t = "str" -> v.s # <<>>
      [] v.t = "list" -> v.items # <<>>
      [] v.t = "num" -> v.s # <<"0">>
      [] OTHER -> FALSE

\* repr of a list of strings, as an f-string renders it
PyReprList(xs) ==
    <<"[">> \o Join(<<",", " ">>, [i \in 1..Len(xs) |-> <<"'">> \o xs[i] \o <<"'">>]) \o <<"]">>

----------------------------------------------------------------------------
(* Configuration and module-level objects *)

Placeholder == "YOUR_GROQ_API_KEY"

\* values line 14 can be given: the shipped empty key, the placeholder, a real key
ApiKeys == {"", Placeholder, "gsk_key"}

\* lines 18-19: the guardrail; TRUE when st.warning is rendered
Guardrail(key) == key = Placeholder

ResearchTemplate ==
    << "Use the provided external snippets and links to compile facts about the topic: '",
       "{topic}",
       "'. Return: 1) 5-7 bullet points 2) risks/limitations note 3) 5 sources. Be concise." >>

SummaryTemplate ==
    << "Summarize the research facts into at most 8 bullets (<= 110 words total)." >>

ReportTemplate ==
    << "Write a final Markdown report from the summary and sources with this exact structure:\n# ",
       "{title}", "\nGenerated on ", "{date}",
       "\n\n## Executive Summary ... ## Key Insights ... ## Risks & Limitations ... ## References" >>

\* lines 113-124: every execution of the script constructs research_task anew,
\* whatever description the task of the previous execution held
research_task_kept(previous_description) == previous_description
research_task(previous_description) == ResearchTemplate

\* crew.tasks, executed in list order by the crew's sequential process
CrewTasksSwapped == <<"summary", "research", "report">>
CrewTasks == <<"research", "summary", "report">>

\* the description a task holds when the crew interpolates it
TaskDescription(name, research_desc) ==
    CASE name = "research" -> research_desc
      [] name = "summary" -> SummaryTemplate
      [] name = "report" -> ReportTemplate

Placeholders == {"{topic}", "{title}", "{date}", "{context}"}

InputFor(inp, ph) ==
    CASE ph = "{topic}" -> inp.topic
      [] ph = "{title}" -> inp.title
      [] ph = "{date}" -> inp.date
      [] ph = "{context}" -> inp.context

RECURSIVE Interpolate(_, _)
\* crew.kickoff(inputs=...) substitutes the inputs into each task description:
\* every placeholder, left to right, is replaced by its input
Interpolate(desc, inp) ==
    LET at == {i \in 1..Len(desc) : desc[i] \in Placeholders}
    IN IF at = {} THEN desc
       ELSE LET i == CHOOSE j \in at : \A k \in at : j <= k
            IN SubSeq(desc, 1, i - 1) \o InputFor(inp, desc[i])
               \o Interpolate(SubSeq(desc, i + 1, Len(desc)), inp)

\* lines 107-108: the stored report is created only when absent
SessionStateInitAlways(ss) == [final_report_md |-> <<>>]
SessionStateInit(ss) ==
    IF "final_report_md" \in DOMAIN ss THEN ss ELSE [final_report_md |-> <<>>]

\* line 196: the condition under which the script calls run_pipeline
ShouldRunUnstripped(btn, t) == btn /\ t # <<>>
ShouldRun(btn, t) == btn /\ Strip(t) # <<>>

----------------------------------------------------------------------------
(* wiki_summary and ddg_links *)

WikiDefault(tp) == [title |-> JStr(tp), summary |-> JStr(<<>>), url |-> JStr(<<>>)]

\* lines 24-37.  r.kind = "exception": requests.get raised.  r.json: what
\* r.json() yields ("invalid": it raises; "array": data.get raises).
wiki_summary(tp, r) ==
    IF r.kind = "exception" THEN WikiDefault(tp)
    ELSE IF r.status # OkStatus THEN WikiDefault(tp)
    ELSE IF r.json # "object" THEN WikiDefault(tp)
    ELSE IF r.content_urls = "null" THEN WikiDefault(tp)
    ELSE [title |-> DictGet(r.title, JStr(tp)),
          summary |-> DictGet(r.extract, JStr(<<>>)),
          url |-> IF r.content_urls = "absent" THEN JStr(<<>>)
                  ELSE DictGet(r.page, JStr(<<>>))]

ResultClass == "result__a"

IsResultAnchor(a) == a.cls = ResultClass
HasHrefAndText(a) == a.href # <<>> /\ Strip(a.text) # <<>>

\* lines 39-55 with the filter applied before the slice
ddg_links_filter_first(r, max_results) ==
    IF r.kind = "exception" \/ r.status # OkStatus THEN <<>>
    ELSE LET sel == SelectSeq(r.anchors, IsResultAnchor)
             kept == PySlice(SelectSeq(sel, HasHrefAndText), max_results)
         IN [i \in 1..Len(kept) |-> [title |-> Strip(kept[i].text), url |-> kept[i].href]]

\* lines 39-55
ddg_links(r, max_results) ==
    IF r.kind = "exception" \/ r.status # OkStatus THEN <<>>
    ELSE LET sel == SelectSeq(r.anchors, IsResultAnchor)
             first == PySlice(sel, max_results)
             kept == SelectSeq(first, HasHrefAndText)
         IN [i \in 1..Len(kept) |-> [title |-> Strip(kept[i].text), url |-> kept[i].href]]

----------------------------------------------------------------------------
(* run_pipeline, lines 168-187 *)

\* line 170 raises TypeError when the summary is neither a string nor a list
SummaryRaises(v) == v.t \notin {"str", "list"}

\* line 170: f"{wiki.get('summary','')[:800]}"
SummaryText(v) ==
    IF v.t = "str" THEN PySlice(v.s, SummaryCap)
    ELSE PyReprList(PySlice(v.items, SummaryCap))

\* line 171 raises TypeError when a truthy non-string is added to a string
UrlRaises(v) == Truthy(v) /\ v.t # "str"

\* line 171: wiki.get("url","") or "N/A"
UrlText(v) == IF Truthy(v) THEN v.s ELSE <<"N/A">>

\* line 172
LinksLine(ls) ==
    IF ls # <<>>
    THEN <<"QUICK_LINKS:\n">>
         \o Join(<<"\n">>, [i \in 1..Len(ls) |-> <<"- ">> \o ls[i].title \o <<": ">> \o ls[i].url])
    ELSE <<"QUICK_LINKS: N/A">>

ContextRaises(w) == SummaryRaises(w.summary) \/ UrlRaises(w.url)

\* lines 169-173
ContextBlock(w, ls) ==
    << <<"WIKIPEDIA: ">> \o SummaryText(w.summary),
       <<"WIKI_URL: ">> \o UrlText(w.url),
       LinksLine(ls) >>

\* line 174
ContextText(block) == Join(<<"\n">>, block)

Today == <<"2026-11-05">>

\* lines 177-182
MakeInputs(tp, ctx) ==
    [topic |-> tp, title |-> RStripDot(Strip(tp)), date |-> Today, context |-> ctx]

NoInputs == [topic |-> <<>>, title |-> <<>>, date |-> <<>>, context |-> <<>>]

ContextHeader == "CONTEXT (external snippets & links):\n"

\* lines 185-187
AppendContext(ctx, desc) == desc \o <<"\n\n", ContextHeader>> \o ctx
PrependContext(ctx, desc) == <<ContextHeader>> \o ctx \o <<"\n\n">> \o desc

\* line 190-191 and 200: str() of the crew's result is the last task's raw output
KickoffResultFirst(outs) == outs[1]
KickoffResult(outs) == outs[Len(outs)]

----------------------------------------------------------------------------
(* Inputs: what the user types, what the endpoints and the model answer *)

Topics == { <<>>, <<" ">>, <<" ", "q", " ">>, <<"r", ".">> }

WikiException ==
    [kind |-> "exception", status |-> 0, json |-> "invalid", title |-> JAbsent,
     extract |-> JAbsent, content_urls |-> "absent", page |-> JAbsent]

WikiHttp(status, json, extract, content_urls, page) ==
    [kind |-> "http", status |-> status, json |-> json, title |-> JAbsent,
     extract |-> extract, content_urls |-> content_urls, page |-> page]

WikiResponses ==
    { WikiException,
      WikiHttp(404, "invalid", JAbsent, "absent", JAbsent),
      WikiHttp(OkStatus, "invalid", JAbsent, "absent", JAbsent),
      WikiHttp(OkStatus, "array", JAbsent, "absent", JAbsent),
      WikiHttp(OkStatus, "object", JStr(Chars(2)), "object", JStr(<<"w">>)),
      WikiHttp(OkStatus, "object", JStr(Chars(SummaryCap + ExtraLen)), "object", JStr(<<>>)),
      WikiHttp(OkStatus, "object", JStr(Chars(2)), "null", JAbsent),
      WikiHttp(OkStatus, "object", JAbsent, "absent", JAbsent),
      WikiHttp(OkStatus, "object", JNull, "object", JStr(<<"w">>)),
      WikiHttp(OkStatus, "object", JList(<<Chars(SummaryCap)>>), "object", JNull),
      WikiHttp(OkStatus, "object", JStr(Chars(2)), "object", JNum("7")) }

NoWikiResponse ==
    [kind |-> "none", status |-> 0, json |-> "invalid", title |-> JAbsent,
     extract |-> JAbsent, content_urls |-> "absent", page |-> JAbsent]

NoWiki == [title |-> JAbsent, summary |-> JAbsent, url |-> JAbsent]

Digits == <<"1", "2", "3", "4", "5", "6", "7", "8", "9">>

AnchorKinds == {"good", "nohref", "blank", "other"}

\* the i-th anchor of a result page: complete, without href, with blank text,
\* or an anchor of another class
AnchorAt(i, kind) ==
    [cls |-> IF kind = "other" THEN "nav" ELSE ResultClass,
     href |-> IF kind = "nohref" THEN <<>> ELSE <<"u", Digits[i]>>,
     text |-> IF kind = "blank" THEN <<" ">> ELSE <<" ", "t", Digits[i]>>]

DdgException == [kind |-> "exception", status |-> 0, anchors |-> <<>>]
DdgHttp(status, anchors) == [kind |-> "http", status |-> status, anchors |-> anchors]
NoDdgResponse == [kind |-> "none", status |-> 0, anchors |-> <<>>]

DdgPage(kinds) == DdgHttp(OkStatus, [i \in 1..Len(kinds) |-> AnchorAt(i, kinds[i])])

\* the search responses of the pipeline specification
DdgResponses ==
    { DdgException,
      DdgHttp(403, <<>>),
      DdgPage(<<>>),
      DdgPage(<<"good", "blank", "good">>) }

\* every result page of at most MaxAnchors anchors, and the two failures
AllDdgResponses ==
    { DdgException, DdgHttp(403, <<AnchorAt(1, "good")>>) }
    \cup { DdgPage(k) : k \in UNION { [1..n -> AnchorKinds] : n \in 0..MaxAnchors } }

\* raw texts the generation backend may return
LLMOutputs == { <<"a">>, <<" ", "b", "\n">>, <<"\n">> }

\* failures of the generation call
GenerationErrors == { "AuthenticationError", "RateLimitError" }

----------------------------------------------------------------------------
(* State after the first execution of the script: nothing pressed yet *)

Init ==
    /\ GROQ_API_KEY \in ApiKeys
    /\ st_warning = Guardrail(GROQ_API_KEY)
    /\ st_error = <<>>
    /\ topic = <<>>
    /\ run_btn = FALSE
    /\ session_state = [final_report_md |-> <<>>]
    /\ research_description = research_task(<<>>)
    /\ pc = "idle"
    /\ user_topic = <<>>
    /\ wiki_resp = NoWikiResponse
    /\ wiki = NoWiki
    /\ ddg_resp = NoDdgResponse
    /\ links = <<>>
    /\ context_block = <<>>
    /\ inputs = NoInputs
    /\ task_idx = 0
    /\ task_prompts = <<>>
    /\ task_contexts = <<>>
    /\ task_outputs = <<>>
    /\ log = <<>>

----------------------------------------------------------------------------
(* Actions *)

\* A user interaction re-executes the script from line 1 up to the first
\* blocking call: lines 14-19, 103-108, 113-158, 196-199, then 165, or
\* straight to the display at 204-215 when run_pipeline is not called.
Rerun ==
    /\ pc = "idle"
    /\ \E t \in Topics, b \in BOOLEAN :
        /\ topic' = t
        /\ run_btn' = b
        /\ IF ShouldRun(b, t)
           THEN pc' = "wiki" /\ user_topic' = Strip(t) /\ log' = <<"wiki">>
           ELSE pc' = "idle" /\ user_topic' = <<>> /\ log' = <<>>
    /\ st_warning' = Guardrail(GROQ_API_KEY)
    /\ st_error' = <<>>
    /\ session_state' = SessionStateInit(session_state)
    /\ research_description' = research_task(research_description)
    /\ wiki_resp' = NoWikiResponse
    /\ wiki' = NoWiki
    /\ ddg_resp' = NoDdgResponse
    /\ links' = <<>>
    /\ context_block' = <<>>
    /\ inputs' = NoInputs
    /\ task_idx' = 0
    /\ task_prompts' = <<>>
    /\ task_contexts' = <<>>
    /\ task_outputs' = <<>>
    /\ UNCHANGED GROQ_API_KEY

\* The encyclopedia request returns (line 165); ddg_links is called (line 166).
WikiSummaryOn(responses) ==
    /\ pc = "wiki"
    /\ \E r \in responses :
        /\ wiki_resp' = r
        /\ wiki' = wiki_summary(user_topic, r)
    /\ pc' = "ddg"
    /\ log' = Append(log, "ddg")
    /\ UNCHANGED <<GROQ_API_KEY, st_warning, st_error, topic, run_btn, session_state,
                   research_description, user_topic, ddg_resp, links, context_block,
                   inputs, task_idx, task_prompts, task_contexts, task_outputs>>

\* The search request returns (line 166); lines 168-190 follow: the context is
\* built and prepended and the crew starts its first task, or building the
\* context raises and the handler at lines 201-202 renders the error.
DdgLinksOn(responses) ==
    /\ pc = "ddg"
    /\ \E r \in responses :
        /\ ddg_resp' = r
        /\ links' = ddg_links(r, MaxResults)
    /\ IF ContextRaises(wiki)
       THEN /\ st_error' = <<"Error: ", "TypeError">>
            /\ pc' = "idle"
            /\ UNCHANGED <<context_block, inputs, research_description, task_idx, log>>
       ELSE /\ context_block' = ContextBlock(wiki, links')
            /\ inputs' = MakeInputs(user_topic, ContextText(context_block'))
            /\ research_description' =
                   PrependContext(ContextText(context_block'), research_description)
            /\ pc' = "kickoff"
            /\ task_idx' = 1
            /\ log' = Append(log, CrewTasks[1])
            /\ UNCHANGED st_error
    /\ UNCHANGED <<GROQ_API_KEY, st_warning, topic, run_btn, session_state, user_topic,
                   wiki_resp, wiki, task_prompts, task_contexts, task_outputs>>

WikiSummary == WikiSummaryOn(WikiResponses)

DdgLinks == DdgLinksOn(DdgResponses)

\* The generation call of the current task returns text.  The next task starts
\* with that text as its context; after the last task kickoff returns and
\* lines 191, 200 and 204-215 run.
TaskSucceeds ==
    /\ pc = "kickoff"
    /\ \E out \in LLMOutputs :
        /\ task_outputs' = Append(task_outputs, out)
        /\ task_prompts' = Append(task_prompts,
               Interpolate(TaskDescription(CrewTasks[task_idx], research_description), inputs))
        /\ task_contexts' = Append(task_contexts,
               IF task_idx = 1 THEN <<>> ELSE task_outputs[task_idx - 1])
    /\ IF task_idx = Len(CrewTasks)
       THEN /\ session_state' =
                   [session_state EXCEPT !.final_report_md = Strip(KickoffResult(task_outputs'))]
            /\ pc' = "idle"
            /\ UNCHANGED <<task_idx, log>>
       ELSE /\ task_idx' = task_idx + 1
            /\ log' = Append(log, CrewTasks[task_idx + 1])
            /\ UNCHANGED <<pc, session_state>>
    /\ UNCHANGED <<GROQ_API_KEY, st_warning, st_error, topic, run_btn,
                   research_description, user_topic, wiki_resp, wiki, ddg_resp, links,
                   context_block, inputs>>

\* a failure handler that keeps the last completed output as the report
TaskFailsKeepsPartial ==
    /\ pc = "kickoff"
    /\ \E e \in GenerationErrors : st_error' = <<"Error: ", e>>
    /\ pc' = "idle"
    /\ session_state' =
           [session_state EXCEPT !.final_report_md =
               IF task_outputs = <<>> THEN <<"?">> ELSE Strip(task_outputs[Len(task_outputs)])]
    /\ UNCHANGED <<GROQ_API_KEY, st_warning, topic, run_btn,
                   research_description, user_topic, wiki_resp, wiki, ddg_resp, links,
                   context_block, inputs, task_idx, task_prompts, task_contexts,
                   task_outputs, log>>

\* The generation call of the current task raises: kickoff and run_pipeline
\* propagate it, line 200 is skipped, lines 201-202 render it.
TaskFails ==
    /\ pc = "kickoff"
    /\ \E e \in GenerationErrors : st_error' = <<"Error: ", e>>
    /\ pc' = "idle"
    /\ UNCHANGED <<GROQ_API_KEY, st_warning, topic, run_btn, session_state,
                   research_description, user_topic, wiki_resp, wiki, ddg_resp, links,
                   context_block, inputs, task_idx, task_prompts, task_contexts,
                   task_outputs, log>>

Next == Rerun \/ WikiSummary \/ DdgLinks \/ TaskSucceeds \/ TaskFails

Spec == Init /\ [][Next]_vars

----------------------------------------------------------------------------
(* ddg_links over every result page: the encyclopedia is unreachable *)

WikiUnreachable == WikiSummaryOn({WikiException})

DdgLinksAnyPage == DdgLinksOn(AllDdgResponses)

NextLinks == Rerun \/ WikiUnreachable \/ DdgLinksAnyPage

\* line 14 as shipped
InitLinks == Init /\ GROQ_API_KEY = ""

SpecLinks == InitLinks /\ [][NextLinks]_vars

----------------------------------------------------------------------------
(* Properties *)

IsStage(x) == x \in {"research", "summary", "report"}

\* the stages started in this script run, in order
StagesStarted == SelectSeq(log, IsStage)

\* the script run ended because a generation call failed
GenerationFailed == pc = "idle" /\ Len(st_error) = 2 /\ st_error[2] \in GenerationErrors

\* the script run completed all three stages
RunSucceeded == pc = "idle" /\ Len(task_outputs) = 3

\* C1: when the generation call of a stage fails, the stages started are
\* exactly those up to the failing one, an error is rendered, and the step
\* that fails leaves the stored report as it was.
C1_FailureAborts ==
    /\ [](GenerationFailed =>
            /\ StagesStarted = SubSeq(<<"research", "summary", "report">>, 1, task_idx)
            /\ Len(task_outputs) = task_idx - 1
            /\ st_error[1] = "Error: ")
    /\ [][(pc = "kickoff" /\ st_error' # <<>>) =>
            (pc' = "idle" /\ session_state' = session_state /\ log' = log)]_vars

C1_Witness ==
    GenerationFailed /\ task_idx = 2 /\ Len(task_outputs) = 1 /\ Strip(task_outputs[1]) # <<>>

\* C2: after a run in which all three stages succeeded the stored report is
\* the third stage's output with leading and trailing whitespace removed.
C2_ReportIsStage3 ==
    RunSucceeded =>
        /\ session_state.final_report_md = Strip(task_outputs[3])
        /\ log[Len(log)] = "report"

C2_Witness ==
    /\ RunSucceeded
    /\ Strip(task_outputs[3]) # task_outputs[3]
    /\ Strip(task_outputs[1]) # Strip(task_outputs[3])
    /\ Strip(task_outputs[2]) # Strip(task_outputs[3])

\* C3: whatever the two lookups return, once both have returned a context
\* has been built with defaults for a failed lookup, no error is rendered for
\* it, and the research stage has started.
C3_LookupsNeverAbort ==
    ddg_resp.kind # "none" =>
        /\ context_block # <<>>
        /\ st_error # <<"Error: ", "TypeError">>
        /\ Len(StagesStarted) >= 1
        /\ (wiki_resp.kind = "exception" \/ wiki_resp.status # OkStatus \/ wiki_resp.json # "object")
              => wiki = WikiDefault(user_topic)
        /\ (ddg_resp.kind = "exception" \/ ddg_resp.status # OkStatus) => links = <<>>

\* C4: with an empty or placeholder API key a warning is rendered and no
\* stage is ever started.
C4_NoStageWithoutKey ==
    GROQ_API_KEY \in {"", Placeholder} => (st_warning /\ StagesStarted = <<>>)

\* C5 as amended: a press of the button with an empty or whitespace-only topic
\* starts no lookup and no stage, and renders no error.
C5_BlankTopicIsIgnored ==
    (run_btn /\ Strip(topic) = <<>>) =>
        /\ pc = "idle"
        /\ log = <<>>
        /\ wiki_resp.kind = "none" /\ ddg_resp.kind = "none"
        /\ task_outputs = <<>>
        /\ st_error = <<>>

C5_Witness == run_btn /\ topic = <<" ">> /\ pc = "idle"

\* C5 as stated: such a press starts no lookup and no stage and reports a
\* validation error.
C5_Original ==
    (run_btn /\ Strip(topic) = <<>>) =>
        /\ pc = "idle"
        /\ log = <<>>
        /\ st_error # <<>>

\* positions of the anchors of the result-link class in the last search response
Matching == {i \in 1..Len(ddg_resp.anchors) : ddg_resp.anchors[i].cls = ResultClass}

\* the first MaxResults of them
FirstMatching == {i \in Matching : Cardinality({j \in Matching : j <= i}) <= MaxResults}

\* those of the first MaxResults that have an href and a visible text
Complete ==
    {i \in FirstMatching :
        ddg_resp.anchors[i].href # <<>> /\ Strip(ddg_resp.anchors[i].text) # <<>>}

LinkOf(a) == [title |-> Strip(a.text), url |-> a.href]

SearchSucceeded == ddg_resp.kind = "http" /\ ddg_resp.status = OkStatus

\* C6 as amended: for a successful search response the quick links are, in
\* source order, those of the first min(K, maxResults) matching anchors that
\* have a non-empty href and a non-empty visible text; so there are at most
\* min(K, maxResults) of them.
C6_LinksAreCompleteAmongFirst ==
    SearchSucceeded =>
        /\ Len(links) = Cardinality(Complete)
        /\ Len(links) <= Min(Cardinality(Matching), MaxResults)
        /\ \A i \in Complete :
              links[Cardinality({j \in Complete : j <= i})] = LinkOf(ddg_resp.anchors[i])

C6_Witness ==
    /\ SearchSucceeded
    /\ Cardinality(Matching) = MaxResults + 1
    /\ Len(ddg_resp.anchors) = MaxResults + 1
    /\ Len(links) = MaxResults - 1
    /\ HasHrefAndText(ddg_resp.anchors[MaxResults + 1])
    /\ ~HasHrefAndText(ddg_resp.anchors[2])

\* C6 as stated: the quick links are exactly the first min(K, maxResults)
\* matching anchors, in source order.
C6_Original ==
    SearchSucceeded =>
        /\ Len(links) = Min(Cardinality(Matching), MaxResults)
        /\ \A i \in FirstMatching :
              links[Cardinality({j \in Matching : j <= i})] = LinkOf(ddg_resp.anchors[i])

C8_SummaryBounded ==
    context_block # <<>> =>
        /\ Len(Tail(context_block[1])) <= SummaryCap
        /\ wiki.summary.t = "str" =>
              Tail(context_block[1]) = SubSeq(wiki.summary.s, 1, Min(Len(wiki.summary.s), SummaryCap))

\* the instruction the research stage was given in this script run
ResearchPrompt == task_prompts[1]

C10_ReportChangesOnlyOnSuccess ==
    /\ session_state.final_report_md = <<>>
    /\ [][session_state' # session_state =>
            /\ pc = "kickoff" /\ task_idx = 3 /\ pc' = "idle"
            /\ st_error' = <<>>
            /\ Len(task_outputs') = 3
            /\ session_state'.final_report_md = Strip(task_outputs'[3])]_vars

C10_Witness ==
    /\ pc = "idle"
    /\ session_state.final_report_md # <<>>
    /\ (st_error # <<>> \/ (run_btn /\ Strip(topic) = <<>>))
    /\ Len(task_outputs) < 3

====
